---------------------------- MODULE Spec2Model ----------------------------
(***************************************************************************)
(* Token ownership reconstruction of the token_v2 processor                *)
(* (processor/src/processors/token_v2/token_v2_models/                     *)
(* v2_token_ownerships.rs).                                                *)
(*                                                                         *)
(* One call of a derivation function is in flight at a time: an entry      *)
(* action draws the call's inputs, runs the function body and either       *)
(* finishes (pc = "done") or suspends inside the retried store lookup      *)
(* (pc = "lookup" / "sleep").  Return hands the result back (pc = "idle"). *)
(*                                                                         *)
(* Option<T> is a sequence of length <= 1: None == <<>>, Some(x) == <<x>>. *)
(* anyhow::Result<T> is a record [tag |-> "Ok" | "Err", val |-> ...].      *)
(***************************************************************************)
EXTENDS Integers, Sequences, FiniteSets, Bags, TLC

\* ------------------------------------------------------------------ bounds
\* number of digits of a standardized address
AddrWidth == 2
\* largest configured query_retries
MaxRetries == 3
\* largest number of transfer events of one object in one transaction
MaxTransfers == 2
\* largest event index inside one transaction
MaxEventIndex == 2
\* largest write set change index inside one transaction
MaxChangeIndex == 1
\* largest transaction version
MaxVersion == 1
\* largest number of deposit / withdraw module events recorded per token
MaxModuleEvents == 2
\* number of bits of the unsigned integer property_version_v1 is narrowed to
\* (u64, scaled down to the integers the checker can hold)
U64Bits == 3

\* --------------------------------------------------------------- constants
DEFAULT_OWNER_ADDRESS == "unknown"
DEFAULT_NONE == "NULL"
V1_TOKEN_STORE_TABLE_TYPE == "0x3::token::TokenStore"
TokenStandardV1 == "v1"
TokenStandardV2 == "v2"

\* ----------------------------------------------------------------- options
None == <<>>
Some(x) == <<x>>
is_some(o) == o # <<>>
unwrap(o) == o[1]

Ok(v) == [tag |-> "Ok", val |-> v]
Err(e) == [tag |-> "Err", val |-> e]

\* --------------------------------------------------------------- addresses
\* account addresses as the getters of the decoded records return them
Addrs == {"A", "B"}
\* owner addresses the external store may hold
StoreAddrs == {"C", "D"}

\* left-pad with zero digits up to n digits
RECURSIVE pad_left(_, _)
pad_left(digits, n) ==
  IF Len(digits) >= n THEN digits ELSE pad_left(<<0>> \o digits, n)

\* standardize_address: an address is its hex digits, padded with leading zeros
standardize_address(raw) == pad_left(raw, AddrWidth)

\* resource addresses / table handles as they appear in a write set change
RawAddrs == {<<1>>, <<0, 1>>, <<1, 0>>}
Assets == {standardize_address(r) : r \in RawAddrs}

TxnVersions == 1..MaxVersion
ChangeIndexes == 0..MaxChangeIndex
\* every change of one transaction carries that transaction's timestamp
TimestampOf(version) == 1000 + version

\* all finite maps from a subset of keys to vals
Maps(keys, vals) == UNION {[d -> vals] : d \in SUBSET keys}

\* ------------------------------------------------------------------ state
VARIABLES
  pc,                    \* "idle" | "lookup" | "sleep" | "done"
  op,                    \* the function in flight ("none" when idle)
  args,                  \* its by-value arguments
  tokens_burned,         \* TokenV2Burned: asset -> burn event
  prior_nft_ownership,   \* AHashMap<String, NFTOwnershipV2>
  object_metadatas,      \* ObjectAggregatedDataMapping
  db_context,            \* Option<DbContext>
  table_handle_to_owner, \* TableHandleToOwner
  token_v1_aggregated_events, \* TokenV1AggregatedEventsMapping
  store,                 \* current_token_ownerships_v2 as the lookup sees it
  tried,                 \* local of get_latest_owned_nft_by_token_data_id
  attempts,              \* calls of get_latest_owned_nft_by_token_data_id_impl
  sleeps,                \* calls of tokio::time::sleep
  cache_reads,           \* calls of prior_nft_ownership.get
  ret                    \* the returned anyhow::Result

vars == <<pc, op, args, tokens_burned, prior_nft_ownership, object_metadatas,
          db_context, table_handle_to_owner, token_v1_aggregated_events,
          store, tried, attempts, sleeps, cache_reads, ret>>

ctx_burn == <<tokens_burned, prior_nft_ownership, db_context>>
ctx_v1 == <<table_handle_to_owner, token_v1_aggregated_events>>
lookup_locals == <<store, tried, attempts, sleeps>>

NoArgs == [none |-> TRUE]
NoRet == [tag |-> "none", val |-> <<>>]
\* the store before any lookup has touched it
NoStore == [fails |-> 0, rows |-> {}]
EmptyMap == [k \in {} |-> <<>>]

Init ==
  /\ pc = "idle"
  /\ op = "none"
  /\ args = NoArgs
  /\ tokens_burned = EmptyMap
  /\ prior_nft_ownership = EmptyMap
  /\ object_metadatas = EmptyMap
  /\ db_context = None
  /\ table_handle_to_owner = EmptyMap
  /\ token_v1_aggregated_events = EmptyMap
  /\ store = NoStore
  /\ tried = 0
  /\ attempts = 0
  /\ sleeps = 0
  /\ cache_reads = 0
  /\ ret = NoRet

\* ---------------------------------------------------------------- records
\* struct TokenOwnershipV2
TokenOwnershipV2(version, index, id, pv, owner, storage, amount, table_type, props, soulbound, standard, fungible, ts, ntbo) ==
  [transaction_version |-> version,
   write_set_change_index |-> index,
   token_data_id |-> id,
   property_version_v1 |-> pv,
   owner_address |-> owner,
   storage_id |-> storage,
   amount |-> amount,
   table_type_v1 |-> table_type,
   token_properties_mutated_v1 |-> props,
   is_soulbound_v2 |-> soulbound,
   token_standard |-> standard,
   is_fungible_v2 |-> fungible,
   transaction_timestamp |-> ts,
   non_transferrable_by_owner |-> ntbo]

\* struct CurrentTokenOwnershipV2
CurrentTokenOwnershipV2(id, pv, owner, storage, amount, table_type, props, soulbound, standard, fungible, version, ts, ntbo) ==
  [token_data_id |-> id,
   property_version_v1 |-> pv,
   owner_address |-> owner,
   storage_id |-> storage,
   amount |-> amount,
   table_type_v1 |-> table_type,
   token_properties_mutated_v1 |-> props,
   is_soulbound_v2 |-> soulbound,
   token_standard |-> standard,
   is_fungible_v2 |-> fungible,
   last_transaction_version |-> version,
   last_transaction_timestamp |-> ts,
   non_transferrable_by_owner |-> ntbo]

\* struct NFTOwnershipV2
NFTOwnershipV2(id, owner, soulbound) ==
  [token_data_id |-> id, owner_address |-> owner, is_soulbound |-> soulbound]

\* AHashMap::insert
insert(map, key, value) ==
  [k \in DOMAIN map \cup {key} |-> IF k = key THEN value ELSE map[k]]


\* ------------------------------------------------------- burn path inputs
\* addresses a burn event may embed as previous owner
PrevOwnerAddrs == {"A"}
\* owners the prior-ownership cache may hold
CacheAddrs == {"B"}

\* a burn event, reduced to what get_previous_owner_address() returns
BurnEvents == [previous_owner : {None} \cup {Some(a) : a \in PrevOwnerAddrs}]
TokensBurnedMaps == Maps(Assets, BurnEvents)

PriorOwnershipMaps ==
  UNION {{[a \in d |-> NFTOwnershipV2(a, f[a], None)] : f \in [d -> CacheAddrs]}
         : d \in SUBSET Assets}

\* DbContext, reduced to the two fields the lookup reads
DbContexts ==
  {None} \cup {Some([query_retries |-> n, query_retry_delay_ms |-> 500])
               : n \in 0..MaxRetries}

\* rows of current_token_ownerships_v2 the store may hold
StoreRowsFor(id) ==
  {[token_data_id |-> id, owner_address |-> o, amount |-> 1,
    is_soulbound_v2 |-> None] : o \in StoreAddrs}
  \cup {[token_data_id |-> id, owner_address |-> "Z", amount |-> 0,
         is_soulbound_v2 |-> None]}
\* the store as one lookup sees it: the first `fails` queries fail
\* (connection error), later ones run against `rows`
Stores(id) ==
  LET other == CHOOSE o \in Assets : o # id
      foreign == [token_data_id |-> other, owner_address |-> "E", amount |-> 1,
                  is_soulbound_v2 |-> None]
  IN {[fails |-> k, rows |-> r] :
        k \in 0..MaxRetries,
        r \in {{}, StoreRowsFor(id)}
              \cup {{x} : x \in StoreRowsFor(id)}
              \cup {{x, foreign} : x \in StoreRowsFor(id)}}

ObjectCoreType == "0x1::object::ObjectCore"
ObjectCores == [owner : Addrs, allow_ungated_transfer : BOOLEAN]
\* WriteResource: its address, its type and its payload
WriteResources ==
  {[address |-> r, type_str |-> t, wellformed |-> w, object_core |-> c] :
     r \in RawAddrs, t \in {ObjectCoreType}, w \in {TRUE}, c \in ObjectCores}
  \cup {[address |-> r, type_str |-> t, wellformed |-> FALSE,
         object_core |-> CHOOSE c \in ObjectCores : TRUE] :
          r \in RawAddrs, t \in {ObjectCoreType}}
  \cup {[address |-> r, type_str |-> "0x4::token::Token", wellformed |-> TRUE,
         object_core |-> CHOOSE c \in ObjectCores : TRUE] : r \in RawAddrs}
DeleteResources == [address : RawAddrs]

\* ObjectWithMetadata::from_write_resource
from_write_resource(write_resource) ==
  IF write_resource.type_str # ObjectCoreType THEN Ok(None)
  ELSE IF ~write_resource.wellformed THEN Err("decode")
  ELSE Ok(Some([object_core |-> write_resource.object_core]))

\* ObjectCore::get_owner_address
get_owner_address(object_core) == object_core.owner

\* one entry of ObjectAggregatedDataMapping
ObjectAggregatedData(object_core, untransferable, transfer_events) ==
  [object |-> [object_core |-> object_core],
   untransferable |-> untransferable,
   transfer_events |-> transfer_events]

\* aggregated contexts without transfer events (the burn path reads only the
\* presence of the entry and of its untransferable marker)
PlainObjectData ==
  {ObjectAggregatedData([owner |-> "A", allow_ungated_transfer |-> TRUE],
                        u, <<>>) : u \in {None, Some("untransferable")}}

\* ------------------------------------------------------------- burn path
\* faulty pair: the current record keeps the amount of a held token and
\* carries a soulbound flag
BurnedPair_still_held(token_address, txn_version, write_set_change_index, txn_timestamp, previous_owner) ==
  <<TokenOwnershipV2(txn_version, write_set_change_index, token_address, 0,
                     Some(previous_owner), token_address, 0, None, None, None,
                     TokenStandardV2, None, txn_timestamp, None),
    CurrentTokenOwnershipV2(token_address, 0, previous_owner, token_address,
                            1, None, None, Some(FALSE), TokenStandardV2, None,
                            txn_version, txn_timestamp, None)>>

\* lines 415-450: the (TokenOwnershipV2, CurrentTokenOwnershipV2) pair of a burn
BurnedPair(token_address, txn_version, write_set_change_index, txn_timestamp, previous_owner) ==
  <<TokenOwnershipV2(txn_version, write_set_change_index, token_address, 0,
                     Some(previous_owner), token_address, 0, None, None, None,
                     TokenStandardV2, None, txn_timestamp, None),
    CurrentTokenOwnershipV2(token_address, 0, previous_owner, token_address,
                            0, None, None, None, TokenStandardV2, None,
                            txn_version, txn_timestamp, None)>>

\* get_latest_owned_nft_by_token_data_id_impl: the rows the query may return
\* as .first()
QueryRows(token_data_id) ==
  {r \in store.rows : r.token_data_id = token_data_id /\ r.amount > 0}

\* faulty guards: a lookup that never retries, and one that tries once more
loop_single_try(tried_so_far, query_retries) == tried_so_far < 1
loop_off_by_one(tried_so_far, query_retries) == tried_so_far <= query_retries
\* faulty guard: the body runs once before the count is tested
loop_at_least_once(tried_so_far, query_retries) == tried_so_far = 0 \/ tried_so_far < query_retries

\* line 652: the guard of the retry loop
loop_continues(tried_so_far, query_retries) == tried_so_far < query_retries

\* faulty getter: the embedded previous owner is dropped
previous_owner_ignored(burn_event) == None

\* line 372: BurnEvent::get_previous_owner_address
get_previous_owner_address(burn_event) == burn_event.previous_owner

\* the helper finishes with previous_owner resolved
HelperReturn(token_address, previous_owner) ==
  /\ ret' = Ok(Some(BurnedPair(token_address, args'.txn_version,
                               args'.write_set_change_index,
                               args'.txn_timestamp, previous_owner)))
  /\ pc' = "done"

\* faulty helper: the cache is read before the burn marker set is consulted
get_burned_nft_v2_helper_reads_cache(raw_address) ==
  LET token_address == standardize_address(raw_address) IN
  IF token_address \notin DOMAIN tokens_burned'
  THEN /\ ret' = Ok(None)
       /\ pc' = "done"
       /\ cache_reads' = cache_reads + 1
       /\ UNCHANGED lookup_locals
  ELSE LET burn_event == tokens_burned'[token_address] IN
    IF is_some(get_previous_owner_address(burn_event))
    THEN /\ HelperReturn(token_address,
                         unwrap(get_previous_owner_address(burn_event)))
         /\ UNCHANGED <<cache_reads, lookup_locals>>
    ELSE
      /\ cache_reads' = cache_reads + 1
      /\ IF token_address \in DOMAIN prior_nft_ownership'
         THEN /\ HelperReturn(token_address,
                              prior_nft_ownership'[token_address].owner_address)
              /\ UNCHANGED lookup_locals
         ELSE IF db_context' = None
         THEN /\ HelperReturn(token_address, DEFAULT_OWNER_ADDRESS)
              /\ UNCHANGED lookup_locals
         ELSE \* enters get_latest_owned_nft_by_token_data_id
              /\ store' \in Stores(token_address)
              /\ tried' = 0
              /\ pc' = "lookup"
              /\ ret' = NoRet
              /\ UNCHANGED <<attempts, sleeps>>

\* faulty helper: the store is queried whether or not a context is supplied
get_burned_nft_v2_helper_always_queries(raw_address) ==
  LET token_address == standardize_address(raw_address) IN
  IF token_address \notin DOMAIN tokens_burned'
  THEN /\ ret' = Ok(None)
       /\ pc' = "done"
       /\ UNCHANGED <<cache_reads, lookup_locals>>
  ELSE LET burn_event == tokens_burned'[token_address] IN
    IF is_some(get_previous_owner_address(burn_event))
    THEN /\ HelperReturn(token_address,
                         unwrap(get_previous_owner_address(burn_event)))
         /\ UNCHANGED <<cache_reads, lookup_locals>>
    ELSE
      /\ cache_reads' = cache_reads + 1
      /\ IF token_address \in DOMAIN prior_nft_ownership'
         THEN /\ HelperReturn(token_address,
                              prior_nft_ownership'[token_address].owner_address)
              /\ UNCHANGED lookup_locals
         ELSE \* enters get_latest_owned_nft_by_token_data_id
              /\ store' \in Stores(token_address)
              /\ tried' = 0
              /\ pc' = "lookup"
              /\ ret' = NoRet
              /\ UNCHANGED <<attempts, sleeps>>

\* get_burned_nft_v2_helper up to its first suspension point
\* (args' already holds the call's arguments)
get_burned_nft_v2_helper(raw_address) ==
  LET token_address == standardize_address(raw_address) IN
  IF token_address \notin DOMAIN tokens_burned'
  THEN /\ ret' = Ok(None)
       /\ pc' = "done"
       /\ UNCHANGED <<cache_reads, lookup_locals>>
  ELSE LET burn_event == tokens_burned'[token_address] IN
    IF is_some(get_previous_owner_address(burn_event))
    THEN /\ HelperReturn(token_address,
                         unwrap(get_previous_owner_address(burn_event)))
         /\ UNCHANGED <<cache_reads, lookup_locals>>
    ELSE
      /\ cache_reads' = cache_reads + 1
      /\ IF token_address \in DOMAIN prior_nft_ownership'
         THEN /\ HelperReturn(token_address,
                              prior_nft_ownership'[token_address].owner_address)
              /\ UNCHANGED lookup_locals
         ELSE IF db_context' = None
         THEN /\ HelperReturn(token_address, DEFAULT_OWNER_ADDRESS)
              /\ UNCHANGED lookup_locals
         ELSE \* enters get_latest_owned_nft_by_token_data_id
              /\ store' \in Stores(token_address)
              /\ tried' = 0
              /\ pc' = "lookup"
              /\ ret' = NoRet
              /\ UNCHANGED <<attempts, sleeps>>

\* the address the helper was called with
HelperAddress ==
  standardize_address(IF op = "get_burned_nft_v2_from_write_resource"
                      THEN args.write_resource.address
                      ELSE args.delete_resource.address)

\* get_burned_nft_v2_from_delete_resource
GetBurnedNftV2FromDeleteResource ==
  /\ pc = "idle"
  /\ op' = "get_burned_nft_v2_from_delete_resource"
  /\ \E dr \in DeleteResources, v \in TxnVersions, i \in ChangeIndexes :
       args' = [delete_resource |-> dr, txn_version |-> v,
                write_set_change_index |-> i, txn_timestamp |-> TimestampOf(v)]
  /\ tokens_burned' \in TokensBurnedMaps
  /\ prior_nft_ownership' \in PriorOwnershipMaps
  /\ db_context' \in DbContexts
  /\ get_burned_nft_v2_helper(args'.delete_resource.address)
  /\ UNCHANGED <<object_metadatas, ctx_v1>>

\* faulty pair: a previous owner embedded in the burn marker wins over the
\* object core's owner
BurnedWithObjectPair_from_marker(token_data_id, txn_version, write_set_change_index, txn_timestamp, object, metadatas) ==
  LET object_core == object.object_core
      embedded == get_previous_owner_address(tokens_burned'[token_data_id])
      owner_address == IF is_some(embedded) THEN unwrap(embedded)
                       ELSE get_owner_address(object_core)
      is_soulbound == IF is_some(IF token_data_id \in DOMAIN metadatas
                                 THEN Some(metadatas[token_data_id].untransferable)
                                 ELSE None)
                      THEN TRUE
                      ELSE ~object_core.allow_ungated_transfer
      non_transferrable_by_owner == ~object_core.allow_ungated_transfer
  IN <<TokenOwnershipV2(txn_version, write_set_change_index, token_data_id, 0,
                        Some(owner_address), token_data_id, 0, None, None,
                        Some(is_soulbound), TokenStandardV2, Some(FALSE),
                        txn_timestamp, Some(non_transferrable_by_owner)),
       CurrentTokenOwnershipV2(token_data_id, 0, owner_address, token_data_id,
                               0, None, None, Some(is_soulbound),
                               TokenStandardV2, Some(FALSE), txn_version,
                               txn_timestamp, Some(non_transferrable_by_owner))>>

\* lines 269-319: the pair emitted while the object core is still there
BurnedWithObjectPair(token_data_id, txn_version, write_set_change_index, txn_timestamp, object, metadatas) ==
  LET object_core == object.object_core
      owner_address == get_owner_address(object_core)
      \* .get(..).map(|obj| obj.untransferable.as_ref()).is_some()
      is_soulbound == IF is_some(IF token_data_id \in DOMAIN metadatas
                                 THEN Some(metadatas[token_data_id].untransferable)
                                 ELSE None)
                      THEN TRUE
                      ELSE ~object_core.allow_ungated_transfer
      non_transferrable_by_owner == ~object_core.allow_ungated_transfer
  IN <<TokenOwnershipV2(txn_version, write_set_change_index, token_data_id, 0,
                        Some(owner_address), token_data_id, 0, None, None,
                        Some(is_soulbound), TokenStandardV2, Some(FALSE),
                        txn_timestamp, Some(non_transferrable_by_owner)),
       CurrentTokenOwnershipV2(token_data_id, 0, owner_address, token_data_id,
                               0, None, None, Some(is_soulbound),
                               TokenStandardV2, Some(FALSE), txn_version,
                               txn_timestamp, Some(non_transferrable_by_owner))>>

\* get_burned_nft_v2_from_write_resource
GetBurnedNftV2FromWriteResource ==
  /\ pc = "idle"
  /\ op' = "get_burned_nft_v2_from_write_resource"
  /\ \E wr \in WriteResources, v \in TxnVersions, i \in ChangeIndexes :
       args' = [write_resource |-> wr, txn_version |-> v,
                write_set_change_index |-> i, txn_timestamp |-> TimestampOf(v)]
  /\ tokens_burned' \in TokensBurnedMaps
  /\ prior_nft_ownership' \in PriorOwnershipMaps
  /\ db_context' \in DbContexts
  /\ object_metadatas' \in Maps(Assets, PlainObjectData)
  /\ LET token_data_id == standardize_address(args'.write_resource.address)
         decoded == from_write_resource(args'.write_resource)
     IN IF standardize_address(token_data_id) \in DOMAIN tokens_burned'
        THEN IF decoded.tag = "Err"
             THEN /\ ret' = decoded
                  /\ pc' = "done"
                  /\ UNCHANGED <<cache_reads, lookup_locals>>
             ELSE IF is_some(decoded.val)
             THEN /\ ret' = Ok(Some(BurnedWithObjectPair(
                                 token_data_id, args'.txn_version,
                                 args'.write_set_change_index,
                                 args'.txn_timestamp, unwrap(decoded.val),
                                 object_metadatas')))
                  /\ pc' = "done"
                  /\ UNCHANGED <<cache_reads, lookup_locals>>
             ELSE get_burned_nft_v2_helper(token_data_id)
        ELSE /\ ret' = Ok(None)
             /\ pc' = "done"
             /\ UNCHANGED <<cache_reads, lookup_locals>>
  /\ UNCHANGED ctx_v1

\* get_latest_owned_nft_by_token_data_id: one pass of the while loop
\* (tried < query_retries), up to the return or the sleep
LookupAttempt ==
  /\ pc = "lookup"
  /\ loop_continues(tried, unwrap(db_context).query_retries)
  /\ tried' = tried + 1
  /\ attempts' = attempts + 1
  /\ \/ \* Ok(inner): the helper resumes with nft.owner_address
        /\ attempts' > store.fails
        /\ \E inner \in QueryRows(HelperAddress) :
             LET nft == NFTOwnershipV2(inner.token_data_id, inner.owner_address,
                                       inner.is_soulbound_v2)
             IN /\ ret' = Ok(Some(BurnedPair(HelperAddress, args.txn_version,
                                    args.write_set_change_index,
                                    args.txn_timestamp, nft.owner_address)))
                /\ pc' = "done"
     \/ \* Err(_): sleep unless this was the last try
        /\ attempts' <= store.fails \/ QueryRows(HelperAddress) = {}
        /\ pc' = IF tried' < unwrap(db_context).query_retries
                 THEN "sleep" ELSE "lookup"
        /\ ret' = ret
  /\ UNCHANGED <<op, args, ctx_burn, object_metadatas, ctx_v1, store, sleeps,
                 cache_reads>>

\* tokio::time::sleep(query_retry_delay_ms) completes
LookupSleep ==
  /\ pc = "sleep"
  /\ sleeps' = sleeps + 1
  /\ pc' = "lookup"
  /\ UNCHANGED <<op, args, ctx_burn, object_metadatas, ctx_v1, store, tried,
                 attempts, cache_reads, ret>>

\* the while loop exits: the lookup returns Err and the helper falls back to
\* DEFAULT_OWNER_ADDRESS
LookupExhausted ==
  /\ pc = "lookup"
  /\ ~loop_continues(tried, unwrap(db_context).query_retries)
  /\ ret' = Ok(Some(BurnedPair(HelperAddress, args.txn_version,
                               args.write_set_change_index,
                               args.txn_timestamp, DEFAULT_OWNER_ADDRESS)))
  /\ pc' = "done"
  /\ UNCHANGED <<op, args, ctx_burn, object_metadatas, ctx_v1, lookup_locals,
                 cache_reads>>

\* ---------------------------------------------------- modern derive path
\* strictly increasing sequences of n event indexes
RECURSIVE IncreasingSeqs(_, _)
IncreasingSeqs(n, lo) ==
  IF n = 0 THEN {<<>>}
  ELSE UNION {{<<i>> \o t : t \in IncreasingSeqs(n - 1, i + 1)}
              : i \in lo..MaxEventIndex}

\* the transfer events of one object in one transaction: every event hands
\* the object from its holder to the next one, the last holder is the owner
\* the object core records
TransferEventsOf(holders, indexes) ==
  [k \in 1..Len(indexes) |->
     <<indexes[k], [from |-> holders[k], to |-> holders[k + 1]]>>]

\* aggregated contexts of a live object: (object core, marker, events)
LiveObjectData ==
  UNION {{ObjectAggregatedData(
            [owner |-> h[n + 1], allow_ungated_transfer |-> g], u,
            TransferEventsOf(h, ix)) :
            h \in [1..(n + 1) -> Addrs], ix \in IncreasingSeqs(n, 0),
            g \in BOOLEAN, u \in {None, Some("untransferable")}}
         : n \in 0..MaxTransfers}

\* struct TokenDataV2, reduced to the fields the ownership deriver reads
TokenDatas ==
  {[token_data_id |-> a, transaction_version |-> v,
    write_set_change_index |-> i, transaction_timestamp |-> TimestampOf(v)] :
     a \in Assets, v \in TxnVersions, i \in ChangeIndexes}

\* TransferEvent::get_from_address / get_to_address
get_from_address(transfer_event) == transfer_event.from
get_to_address(transfer_event) == transfer_event.to

\* faulty test: self transfers are not recognised
is_self_transfer_never(transfer_event) == FALSE

\* line 201: the self transfer test
is_self_transfer(transfer_event) ==
  get_to_address(transfer_event) = get_from_address(transfer_event)

\* faulty index: the event index is not negated
event_change_index_positive(event_index) == event_index

\* line 207: the change index of an event-derived record
event_change_index(event_index) == -1 * event_index

\* faulty flag: the untransferable marker is not looked at
is_soulbound_without_marker(object_data) ==
  ~object_data.object.object_core.allow_ungated_transfer

\* lines 151-155
is_soulbound_of(object_data) ==
  IF is_some(object_data.untransferable)
  THEN TRUE
  ELSE ~object_data.object.object_core.allow_ungated_transfer

\* line 156
non_transferrable_by_owner_of(object_data) ==
  ~object_data.object.object_core.allow_ungated_transfer

\* CurrentTokenOwnershipV2PK
CurrentTokenOwnershipV2PK(token_data_id, pv, owner_address, storage_id) ==
  <<token_data_id, pv, owner_address, storage_id>>

\* lines 158-196: the records of the current owner
current_owner_records(token_data, object_data) ==
  LET id == token_data.token_data_id
      owner_address == get_owner_address(object_data.object.object_core)
      is_soulbound == is_soulbound_of(object_data)
      ntbo == non_transferrable_by_owner_of(object_data)
  IN <<TokenOwnershipV2(token_data.transaction_version,
                        token_data.write_set_change_index, id, 0,
                        Some(owner_address), id, 1, None, None,
                        Some(is_soulbound), TokenStandardV2, None,
                        token_data.transaction_timestamp, Some(ntbo)),
       CurrentTokenOwnershipV2(id, 0, owner_address, id, 1, None, None,
                               Some(is_soulbound), TokenStandardV2, None,
                               token_data.transaction_version,
                               token_data.transaction_timestamp, Some(ntbo))>>

\* faulty records: non_transferrable_by_owner as on the current owner's records
previous_owner_records_plain_flag(token_data, object_data, event_index, transfer_event) ==
  LET id == token_data.token_data_id
      is_soulbound == is_soulbound_of(object_data)
      ntbo == non_transferrable_by_owner_of(object_data)
  IN <<TokenOwnershipV2(token_data.transaction_version,
                        event_change_index(event_index), id, 0,
                        Some(get_from_address(transfer_event)), id, 0, None,
                        None, Some(is_soulbound), TokenStandardV2, None,
                        token_data.transaction_timestamp, Some(ntbo)),
       CurrentTokenOwnershipV2(id, 0, get_from_address(transfer_event), id, 0,
                               None, None, Some(is_soulbound), TokenStandardV2,
                               None, token_data.transaction_version,
                               token_data.transaction_timestamp, Some(ntbo))>>

\* lines 204-247: the records of the previous owner of one transfer event
previous_owner_records(token_data, object_data, event_index, transfer_event) ==
  LET id == token_data.token_data_id
      is_soulbound == is_soulbound_of(object_data)
  IN <<TokenOwnershipV2(token_data.transaction_version,
                        event_change_index(event_index), id, 0,
                        Some(get_from_address(transfer_event)), id, 0, None,
                        None, Some(is_soulbound), TokenStandardV2, None,
                        token_data.transaction_timestamp, Some(is_soulbound)),
       CurrentTokenOwnershipV2(id, 0, get_from_address(transfer_event), id, 0,
                               None, None, Some(is_soulbound), TokenStandardV2,
                               None, token_data.transaction_version,
                               token_data.transaction_timestamp,
                               Some(is_soulbound))>>

\* lines 199-248: the loop over transfer_events, from event k on
RECURSIVE transfer_loop(_, _, _, _, _)
transfer_loop(token_data, object_data, k, ownerships, current_ownerships) ==
  IF k > Len(object_data.transfer_events)
  THEN <<ownerships, current_ownerships>>
  ELSE LET event_index == object_data.transfer_events[k][1]
           transfer_event == object_data.transfer_events[k][2]
           recs == previous_owner_records(token_data, object_data,
                                          event_index, transfer_event)
       IN IF is_self_transfer(transfer_event)
          THEN transfer_loop(token_data, object_data, k + 1, ownerships,
                             current_ownerships)
          ELSE transfer_loop(
                 token_data, object_data, k + 1, Append(ownerships, recs[1]),
                 insert(current_ownerships,
                        CurrentTokenOwnershipV2PK(
                          recs[2].token_data_id, recs[2].property_version_v1,
                          recs[2].owner_address, recs[2].storage_id),
                        recs[2]))

\* get_nft_v2_from_token_data
get_nft_v2_from_token_data(token_data, metadatas) ==
  IF token_data.token_data_id \notin DOMAIN metadatas
  THEN Err("If token data exists objectcore must exist")
  ELSE LET object_data == metadatas[token_data.token_data_id]
           recs == current_owner_records(token_data, object_data)
       IN Ok(transfer_loop(
               token_data, object_data, 1, <<recs[1]>>,
               insert(EmptyMap,
                      CurrentTokenOwnershipV2PK(
                        recs[2].token_data_id, recs[2].property_version_v1,
                        recs[2].owner_address, recs[2].storage_id),
                      recs[2])))

\* the aggregated mappings a derive call may see: any context for the token
\* data's object (or none), and possibly a plain one for the other object
DeriveMetadatas(id) ==
  LET other == CHOOSE a \in Assets : a # id
  IN {EmptyMap}
     \cup {insert(EmptyMap, id, d) : d \in LiveObjectData}
     \cup {insert(insert(EmptyMap, id, d), other, e) :
             d \in LiveObjectData, e \in PlainObjectData}
     \cup {insert(EmptyMap, other, e) : e \in PlainObjectData}

GetNftV2FromTokenData ==
  /\ pc = "idle"
  /\ op' = "get_nft_v2_from_token_data"
  /\ \E token_data \in TokenDatas :
       /\ args' = [token_data |-> token_data]
       /\ object_metadatas' \in DeriveMetadatas(token_data.token_data_id)
  /\ ret' = get_nft_v2_from_token_data(args'.token_data, object_metadatas')
  /\ pc' = "done"
  /\ UNCHANGED <<ctx_burn, ctx_v1, lookup_locals, cache_reads>>

\* ------------------------------------------------------------ legacy path
TokenType == "0x3::token::Token"
TokenIdType == "0x3::token::TokenId"
TokenDataType == "0x3::token::TokenData"
UnknownType == "0x1::coin::CoinStore"
PendingClaimsTableType == "0x3::token_transfers::PendingClaims"

\* struct TokenDataIdType
TokenDataIdStructs ==
  [creator : {"A"}, collection : {"c1", "c2"}, name : {"n"}]
\* TokenDataIdType::to_id: the hash of creator::collection::name, one id per
\* triple
to_id(token_data_id_struct) ==
  <<token_data_id_struct.creator, token_data_id_struct.collection,
    token_data_id_struct.name>>
LegacyTokenIds == {to_id(t) : t \in TokenDataIdStructs}

\* struct TokenIdType
TokenIdStructs == [token_data_id : TokenDataIdStructs, property_version : {0, 1}]
\* struct TokenType
TokenStructs ==
  [amount : {-1, 0, 2}, id : TokenIdStructs, token_properties : {"props"}]

\* a table item payload: the declared type, whether the bytes parse as that
\* type, and what they parse to
Payloads ==
  {[type_str |-> TokenType, wellformed |-> TRUE, body |-> t] : t \in TokenStructs}
  \cup {[type_str |-> TokenIdType, wellformed |-> TRUE, body |-> t] :
          t \in TokenIdStructs}
  \cup {[type_str |-> ty, wellformed |-> w, body |-> [opaque |-> "other"]] :
          ty \in {TokenDataType, UnknownType}, w \in {TRUE}}
  \cup {[type_str |-> ty, wellformed |-> FALSE, body |-> [opaque |-> "garbage"]] :
          ty \in {TokenType, TokenIdType}}

\* faulty decoder: a malformed payload is passed over like an unknown type
from_table_item_type_lenient(payload) ==
  IF payload.type_str \notin {TokenType, TokenIdType, TokenDataType}
     \/ ~payload.wellformed
  THEN Ok(None)
  ELSE IF payload.type_str = TokenType
       THEN Ok(Some([variant |-> "Token", inner |-> payload.body]))
  ELSE IF payload.type_str = TokenIdType
       THEN Ok(Some([variant |-> "TokenId", inner |-> payload.body]))
  ELSE Ok(Some([variant |-> "TokenData", inner |-> payload.body]))

\* TokenWriteSet::from_table_item_type
from_table_item_type(payload) ==
  IF payload.type_str \notin {TokenType, TokenIdType, TokenDataType}
  THEN Ok(None)
  ELSE IF ~payload.wellformed THEN Err("failed to parse type")
  ELSE IF payload.type_str = TokenType
       THEN Ok(Some([variant |-> "Token", inner |-> payload.body]))
  ELSE IF payload.type_str = TokenIdType
       THEN Ok(Some([variant |-> "TokenId", inner |-> payload.body]))
  ELSE Ok(Some([variant |-> "TokenData", inner |-> payload.body]))

\* faulty clamp: a negative amount passes through
ensure_not_negative_identity(amount) == amount

\* ensure_not_negative
ensure_not_negative(amount) == IF amount < 0 THEN 0 ELSE amount

\* struct TableMetadataForToken
TableMetadatas ==
  {[owner_address |-> "A", table_type |-> V1_TOKEN_STORE_TABLE_TYPE],
   [owner_address |-> "B", table_type |-> PendingClaimsTableType]}
TableHandleMaps == Maps(Assets, TableMetadatas)

\* deposit / withdraw module events, reduced to their optional addresses
ModuleEvents ==
  [from_address : {None} \cup {Some(a) : a \in Addrs},
   to_address : {None} \cup {Some(a) : a \in Addrs}]
RECURSIVE SeqsUpTo(_, _)
SeqsUpTo(S, n) ==
  IF n = 0 THEN {<<>>}
  ELSE SeqsUpTo(S, n - 1)
       \cup {Append(q, x) : q \in {t \in SeqsUpTo(S, n - 1) : Len(t) = n - 1},
                            x \in S}
DepositLists ==
  SeqsUpTo({e \in ModuleEvents : e.from_address = None}, MaxModuleEvents)
WithdrawLists ==
  SeqsUpTo({e \in ModuleEvents : e.to_address = None}, MaxModuleEvents)

\* struct TokenV1AggregatedEvents
OtherTokenEvents ==
  [deposit_module_events |-> <<[from_address |-> None, to_address |-> Some("B")]>>,
   withdraw_module_events |-> <<[from_address |-> Some("B"), to_address |-> None]>>]
\* the mappings a call may see: for one token every deposit list against a
\* short withdraw list (or the reverse), the other token absent or fixed
AggregatedEventsMaps(deposits, withdraws) ==
  {EmptyMap}
  \cup UNION {UNION {{insert(EmptyMap, id, e),
                      insert(insert(EmptyMap, id, e),
                             CHOOSE o \in LegacyTokenIds : o # id,
                             OtherTokenEvents)} :
                       e \in [deposit_module_events : deposits,
                              withdraw_module_events : withdraws]}
              : id \in LegacyTokenIds}

\* <[T]>::last and <[T]>::first
last(events) == IF events = <<>> THEN None ELSE Some(events[Len(events)])
first(events) == IF events = <<>> THEN None ELSE Some(events[1])

\* HashMap::get
get(map, key) == IF key \in DOMAIN map THEN Some(map[key]) ELSE None

\* faulty pick: the earliest deposit instead of the most recent one
deposit_events_first(events) == first(events.deposit_module_events)

\* line 490 and line 585: the one event each legacy path looks at
deposit_events_of(events) == last(events.deposit_module_events)
withdraw_events_of(events) == first(events.withdraw_module_events)

\* faulty search: the most recent deposit that carries a to-address
deposit_owner_searching(aggregated_events, token_data_id) ==
  LET events == get(aggregated_events, token_data_id)
      deposits == IF is_some(events) THEN unwrap(events).deposit_module_events ELSE <<>>
      addressed == {k \in DOMAIN deposits : is_some(deposits[k].to_address)}
  IN IF addressed = {} THEN None
     ELSE deposits[CHOOSE k \in addressed : \A j \in addressed : j <= k].to_address

\* lines 488-491: the owner the deposit events give
deposit_owner(aggregated_events, token_data_id) ==
  LET events == get(aggregated_events, token_data_id)
      e == IF is_some(events) THEN deposit_events_of(unwrap(events)) ELSE None
  IN IF is_some(e) THEN unwrap(e).to_address ELSE None

\* lines 583-586: the owner the withdraw events give
withdraw_owner(aggregated_events, token_data_id) ==
  LET events == get(aggregated_events, token_data_id)
      e == IF is_some(events) THEN withdraw_events_of(unwrap(events)) ELSE None
  IN IF is_some(e) THEN unwrap(e).from_address ELSE None

\* lines 484-492
write_owner_address(handle_to_owner, aggregated_events, table_handle, token_data_id) ==
  LET tm == get(handle_to_owner, table_handle)
  IN IF is_some(tm) /\ unwrap(tm).table_type = V1_TOKEN_STORE_TABLE_TYPE
     THEN Some(unwrap(tm).owner_address)
     ELSE deposit_owner(aggregated_events, token_data_id)

\* faulty fallback: an unresolved owner becomes the sentinel owner
delete_owner_address_sentinel(handle_to_owner, aggregated_events, table_handle, token_data_id) ==
  LET tm == get(handle_to_owner, table_handle)
      from_events == withdraw_owner(aggregated_events, token_data_id)
  IN IF is_some(tm) /\ unwrap(tm).table_type = V1_TOKEN_STORE_TABLE_TYPE
     THEN Some(unwrap(tm).owner_address)
     ELSE IF is_some(from_events) THEN from_events
     ELSE Some(DEFAULT_OWNER_ADDRESS)

\* lines 579-587
delete_owner_address(handle_to_owner, aggregated_events, table_handle, token_data_id) ==
  LET tm == get(handle_to_owner, table_handle)
  IN IF is_some(tm) /\ unwrap(tm).table_type = V1_TOKEN_STORE_TABLE_TYPE
     THEN Some(unwrap(tm).owner_address)
     ELSE withdraw_owner(aggregated_events, token_data_id)

\* get_v1_from_write_table_item
get_v1_from_write_table_item(table_item, txn_version, write_set_change_index, txn_timestamp, handle_to_owner, aggregated_events) ==
  LET decoded == from_table_item_type(
                   [type_str |-> table_item.data.value_type,
                    wellformed |-> table_item.data.wellformed,
                    body |-> table_item.data.value])
  IN IF decoded.tag = "Err" THEN decoded
     ELSE IF ~(is_some(decoded.val) /\ unwrap(decoded.val).variant = "Token")
     THEN Ok(None)
     ELSE
       LET token == unwrap(decoded.val).inner
           table_handle == standardize_address(table_item.handle)
           amount == ensure_not_negative(token.amount)
           token_id_struct == token.id
           token_data_id == to_id(token_id_struct.token_data_id)
           owner_address == write_owner_address(handle_to_owner,
                                                aggregated_events,
                                                table_handle, token_data_id)
       IN IF ~is_some(owner_address) THEN Ok(None)
          ELSE Ok(Some(
            <<TokenOwnershipV2(txn_version, write_set_change_index,
                               token_data_id, token_id_struct.property_version,
                               Some(unwrap(owner_address)), table_handle,
                               amount, Some(V1_TOKEN_STORE_TABLE_TYPE),
                               Some(token.token_properties), None,
                               TokenStandardV1, None, txn_timestamp, None),
              Some(CurrentTokenOwnershipV2(
                     token_data_id, token_id_struct.property_version,
                     unwrap(owner_address), table_handle, amount,
                     Some(V1_TOKEN_STORE_TABLE_TYPE),
                     Some(token.token_properties), None, TokenStandardV1,
                     None, txn_version, txn_timestamp, None))>>))

\* get_v1_from_delete_table_item
get_v1_from_delete_table_item(table_item, txn_version, write_set_change_index, txn_timestamp, handle_to_owner, aggregated_events) ==
  LET decoded == from_table_item_type(
                   [type_str |-> table_item.data.key_type,
                    wellformed |-> table_item.data.wellformed,
                    body |-> table_item.data.key])
  IN IF decoded.tag = "Err" THEN decoded
     ELSE IF ~(is_some(decoded.val) /\ unwrap(decoded.val).variant = "TokenId")
     THEN Ok(None)
     ELSE
       LET token_id_struct == unwrap(decoded.val).inner
           table_handle == standardize_address(table_item.handle)
           token_data_id == to_id(token_id_struct.token_data_id)
           owner_address == delete_owner_address(handle_to_owner,
                                                 aggregated_events,
                                                 table_handle, token_data_id)
       IN IF ~is_some(owner_address) THEN Ok(None)
          ELSE Ok(Some(
            <<TokenOwnershipV2(txn_version, write_set_change_index,
                               token_data_id, token_id_struct.property_version,
                               Some(unwrap(owner_address)), table_handle, 0,
                               Some(V1_TOKEN_STORE_TABLE_TYPE), None, None,
                               TokenStandardV1, None, txn_timestamp, None),
              Some(CurrentTokenOwnershipV2(
                     token_data_id, token_id_struct.property_version,
                     unwrap(owner_address), table_handle, 0,
                     Some(V1_TOKEN_STORE_TABLE_TYPE), None, None,
                     TokenStandardV1, None, txn_version, txn_timestamp,
                     None))>>))

\* WriteTableItem: handle and data (value_type, value)
WriteTableItems ==
  {[handle |-> h, data |-> [value_type |-> p.type_str,
                            wellformed |-> p.wellformed, value |-> p.body]] :
     h \in RawAddrs, p \in Payloads}
\* DeleteTableItem: handle and data (key_type, key)
DeleteTableItems ==
  {[handle |-> h, data |-> [key_type |-> p.type_str,
                            wellformed |-> p.wellformed, key |-> p.body]] :
     h \in RawAddrs, p \in Payloads}

GetV1FromWriteTableItem ==
  /\ pc = "idle"
  /\ op' = "get_v1_from_write_table_item"
  /\ \E ti \in WriteTableItems, v \in TxnVersions, i \in ChangeIndexes :
       args' = [table_item |-> ti, txn_version |-> v,
                write_set_change_index |-> i, txn_timestamp |-> TimestampOf(v)]
  /\ table_handle_to_owner' \in TableHandleMaps
  /\ token_v1_aggregated_events' \in
       AggregatedEventsMaps(DepositLists, {<<>>, OtherTokenEvents.withdraw_module_events})
  /\ ret' = get_v1_from_write_table_item(
              args'.table_item, args'.txn_version,
              args'.write_set_change_index, args'.txn_timestamp,
              table_handle_to_owner', token_v1_aggregated_events')
  /\ pc' = "done"
  /\ UNCHANGED <<ctx_burn, object_metadatas, lookup_locals, cache_reads>>

GetV1FromDeleteTableItem ==
  /\ pc = "idle"
  /\ op' = "get_v1_from_delete_table_item"
  /\ \E ti \in DeleteTableItems, v \in TxnVersions, i \in ChangeIndexes :
       args' = [table_item |-> ti, txn_version |-> v,
                write_set_change_index |-> i, txn_timestamp |-> TimestampOf(v)]
  /\ table_handle_to_owner' \in TableHandleMaps
  /\ token_v1_aggregated_events' \in
       AggregatedEventsMaps({<<>>, OtherTokenEvents.deposit_module_events}, WithdrawLists)
  /\ ret' = get_v1_from_delete_table_item(
              args'.table_item, args'.txn_version,
              args'.write_set_change_index, args'.txn_timestamp,
              table_handle_to_owner', token_v1_aggregated_events')
  /\ pc' = "done"
  /\ UNCHANGED <<ctx_burn, object_metadatas, lookup_locals, cache_reads>>

\* --------------------------------------------------------- export adapters
U64_MAX == 2^U64Bits - 1

\* a panicking call (Option::unwrap on None)
Panic == [tag |-> "Panic", val |-> <<>>]

\* BigDecimal::to_u64
to_u64(d) == IF d < 0 \/ d > U64_MAX THEN None ELSE Some(d)

DigitChars == <<"0", "1", "2", "3", "4", "5", "6", "7", "8", "9">>

RECURSIVE digits_of(_)
digits_of(n) ==
  IF n < 10 THEN <<DigitChars[n + 1]>>
  ELSE digits_of(n \div 10) \o <<DigitChars[(n % 10) + 1]>>

\* BigDecimal::to_string: the decimal digits, with a sign when negative
decimal_to_string(d) ==
  IF d < 0 THEN <<"-">> \o digits_of(-d) ELSE digits_of(d)

\* serde_json::Value objects: the entries <<key, number>> in stored order;
\* the number is an integer or a float literal
JsonKeys == {"a", "b"}
JsonNumbers == {"1", "1.5"}
JsonValues ==
  {<<>>}
  \cup {<<<<k, n>>>> : k \in JsonKeys, n \in JsonNumbers}
  \cup {<<<<"a", "1">>, <<"b", "1">>>>, <<<<"b", "1">>, <<"a", "1">>>>,
        <<<<"a", "1">>, <<"b", "1.5">>>>}

KeyRank(k) == IF k = "a" THEN 1 ELSE 2

RECURSIVE json_entries(_)
json_entries(entries) ==
  IF entries = <<>> THEN <<>>
  ELSE <<entries[1][1], ":", entries[1][2]>>
       \o (IF Len(entries) > 1 THEN <<",">> ELSE <<>>)
       \o json_entries(Tail(entries))

\* serde_json::Value::to_string: the entries in stored order
json_to_string(v) == <<"{">> \o json_entries(v) \o <<"}">>

\* the entries in ascending key order
sort_by_key(entries) ==
  CHOOSE s \in [1..Len(entries) -> {entries[i] : i \in DOMAIN entries}] :
    /\ {s[i] : i \in DOMAIN s} = {entries[i] : i \in DOMAIN entries}
    /\ \A i, j \in DOMAIN s : i < j => KeyRank(s[i][1]) < KeyRank(s[j][1])

\* canonical_json::to_string: keys in ascending order; floats are rejected
canonical_json_to_string(v) ==
  IF \E i \in DOMAIN v : v[i][2] = "1.5" THEN Err("float")
  ELSE Ok(json_to_string(sort_by_key(v)))

\* the property versions and amounts a record handed to an adapter may hold
PropertyVersions == {-1, 0, 1, U64_MAX, U64_MAX + 1}
AdapterAmounts == {0, 1, 12}
AdapterProps == {None} \cup {Some(v) : v \in JsonValues}

RawTokenOwnerships ==
  {TokenOwnershipV2(1, 0, <<0, 1>>, pv, Some("A"), <<0, 1>>, amount,
                    Some(V1_TOKEN_STORE_TABLE_TYPE), props, None,
                    TokenStandardV1, None, TimestampOf(1), None) :
     pv \in PropertyVersions, amount \in AdapterAmounts, props \in AdapterProps}

RawCurrentTokenOwnerships ==
  {CurrentTokenOwnershipV2(<<0, 1>>, pv, "A", <<0, 1>>, amount,
                           Some(V1_TOKEN_STORE_TABLE_TYPE), props, None,
                           TokenStandardV1, None, 1, TimestampOf(1), None) :
     pv \in PropertyVersions, amount \in AdapterAmounts, props \in AdapterProps}

\* lines 730-732: token_properties_mutated_v1.map(|v| v.to_string())
ownership_properties_text(props) ==
  IF is_some(props) THEN Some(json_to_string(unwrap(props))) ELSE None

\* lines 781-791: .and_then(canonical_json::to_string(..).ok())
\*                .or_else(|| Some(DEFAULT_NONE.to_string()))
current_properties_text(props) ==
  IF is_some(props) /\ canonical_json_to_string(unwrap(props)).tag = "Ok"
  THEN Some(canonical_json_to_string(unwrap(props)).val)
  ELSE Some(<<DEFAULT_NONE>>)

\* impl From<TokenOwnershipV2> for ParquetTokenOwnershipV2
ParquetTokenOwnershipV2_from(raw_item) ==
  IF ~is_some(to_u64(raw_item.property_version_v1)) THEN Panic
  ELSE Ok([txn_version |-> raw_item.transaction_version,
           write_set_change_index |-> raw_item.write_set_change_index,
           token_data_id |-> raw_item.token_data_id,
           property_version_v1 |-> unwrap(to_u64(raw_item.property_version_v1)),
           owner_address |-> raw_item.owner_address,
           storage_id |-> raw_item.storage_id,
           amount |-> decimal_to_string(raw_item.amount),
           table_type_v1 |-> raw_item.table_type_v1,
           token_properties_mutated_v1 |->
             ownership_properties_text(raw_item.token_properties_mutated_v1),
           is_soulbound_v2 |-> raw_item.is_soulbound_v2,
           token_standard |-> raw_item.token_standard,
           block_timestamp |-> raw_item.transaction_timestamp,
           non_transferrable_by_owner |-> raw_item.non_transferrable_by_owner])

\* impl From<CurrentTokenOwnershipV2> for ParquetCurrentTokenOwnershipV2
ParquetCurrentTokenOwnershipV2_from(raw_item) ==
  IF ~is_some(to_u64(raw_item.property_version_v1)) THEN Panic
  ELSE Ok([token_data_id |-> raw_item.token_data_id,
           property_version_v1 |-> unwrap(to_u64(raw_item.property_version_v1)),
           owner_address |-> raw_item.owner_address,
           storage_id |-> raw_item.storage_id,
           amount |-> decimal_to_string(raw_item.amount),
           table_type_v1 |-> raw_item.table_type_v1,
           token_properties_mutated_v1 |->
             current_properties_text(raw_item.token_properties_mutated_v1),
           is_soulbound_v2 |-> raw_item.is_soulbound_v2,
           token_standard |-> raw_item.token_standard,
           is_fungible_v2 |-> raw_item.is_fungible_v2,
           last_transaction_version |-> raw_item.last_transaction_version,
           last_transaction_timestamp |-> raw_item.last_transaction_timestamp,
           non_transferrable_by_owner |-> raw_item.non_transferrable_by_owner])

\* impl From<CurrentTokenOwnershipV2> for PostgresCurrentTokenOwnershipV2
PostgresCurrentTokenOwnershipV2_from(raw_item) ==
  Ok([token_data_id |-> raw_item.token_data_id,
      property_version_v1 |-> raw_item.property_version_v1,
      owner_address |-> raw_item.owner_address,
      storage_id |-> raw_item.storage_id,
      amount |-> raw_item.amount,
      table_type_v1 |-> raw_item.table_type_v1,
      token_properties_mutated_v1 |-> raw_item.token_properties_mutated_v1,
      is_soulbound_v2 |-> raw_item.is_soulbound_v2,
      token_standard |-> raw_item.token_standard,
      is_fungible_v2 |-> raw_item.is_fungible_v2,
      last_transaction_version |-> raw_item.last_transaction_version,
      last_transaction_timestamp |-> raw_item.last_transaction_timestamp,
      non_transferrable_by_owner |-> raw_item.non_transferrable_by_owner])

\* a conversion call: no context is read, nothing is awaited
Convert(name, raw_item, result) ==
  /\ pc = "idle"
  /\ op' = name
  /\ args' = [raw_item |-> raw_item]
  /\ ret' = result
  /\ pc' = "done"
  /\ UNCHANGED <<ctx_burn, object_metadatas, ctx_v1, lookup_locals, cache_reads>>

ParquetTokenOwnershipV2From ==
  \E raw_item \in RawTokenOwnerships :
    Convert("ParquetTokenOwnershipV2::from", raw_item,
            ParquetTokenOwnershipV2_from(raw_item))

ParquetCurrentTokenOwnershipV2From ==
  \E raw_item \in RawCurrentTokenOwnerships :
    Convert("ParquetCurrentTokenOwnershipV2::from", raw_item,
            ParquetCurrentTokenOwnershipV2_from(raw_item))

PostgresCurrentTokenOwnershipV2From ==
  \E raw_item \in RawCurrentTokenOwnerships :
    Convert("PostgresCurrentTokenOwnershipV2::from", raw_item,
            PostgresCurrentTokenOwnershipV2_from(raw_item))

\* ------------------------------------------------- processor configuration
\* the variants of enum ProcessorConfig that are modelled
ParquetProcessors == {"ParquetDefaultProcessor", "ParquetEventsProcessor",
                      "ParquetAnsProcessor"}
OtherProcessors == {"DefaultProcessor", "TokenV2Processor", "MonitoringProcessor"}

\* ProcessorConfig::name (strum, snake_case)
name(processor) ==
  CASE processor = "ParquetDefaultProcessor" -> "parquet_default_processor"
    [] processor = "ParquetEventsProcessor" -> "parquet_events_processor"
    [] processor = "ParquetAnsProcessor" -> "parquet_ans_processor"
    [] processor = "DefaultProcessor" -> "default_processor"
    [] processor = "TokenV2Processor" -> "token_v2_processor"
    [] processor = "MonitoringProcessor" -> "monitoring_processor"

\* ProcessorConfig::table_names
table_names(processor) ==
  CASE processor = "ParquetDefaultProcessor" ->
         {"transactions", "move_resources", "write_set_changes", "table_items",
          "move_modules", "block_metadata_transactions", "current_table_items",
          "table_metadata"}
    [] processor = "ParquetEventsProcessor" -> {"events"}
    [] processor = "ParquetAnsProcessor" ->
         {"ans_lookup_v2", "ans_primary_name_v2", "current_ans_lookup_v2",
          "current_ans_primary_name_v2"}
    [] OTHER -> {}

\* VALID_TABLE_NAMES: processor name -> its table names
VALID_TABLE_NAMES ==
  [n \in {name(p) : p \in ParquetProcessors \cup OtherProcessors} |->
     table_names(CHOOSE p \in ParquetProcessors \cup OtherProcessors : name(p) = n)]

\* faulty formatting: the processor name is left out
format_table_name_unprefixed(processor_name, table_name) == table_name

\* format_table_name
format_table_name(processor_name, table_name) ==
  processor_name \o "." \o table_name

\* the names an operator may request
RequestedNames == {"transactions", "Transactions", "move_resources",
                   "InvalidTable", "events"}

\* str::to_lowercase on the requested names
to_lowercase(s) ==
  CASE s = "Transactions" -> "transactions"
    [] s = "InvalidTable" -> "invalidtable"
    [] OTHER -> s

\* the configs: a parquet variant carries backfill_table, the others do not
ProcessorConfigs ==
  {[type |-> p, backfill_table |-> b] :
     p \in ParquetProcessors, b \in SUBSET RequestedNames}
  \cup {[type |-> p, backfill_table |-> {}] : p \in OtherProcessors}

\* faulty validation: the lowercased names are returned
validate_backfill_table_names_lowered(requested, valid_table_names) ==
  LET invalid == {t \in requested : to_lowercase(t) \notin valid_table_names}
  IN IF invalid = {} THEN {Ok(SetToBag({to_lowercase(t) : t \in requested}))}
     ELSE {Err([msg |-> "Invalid table name", table_name |-> t,
                expected |-> valid_table_names]) : t \in invalid}

\* validate_backfill_table_names: the Vec is collected in the set's iteration
\* order, which is unspecified, so it is kept as a bag; collect() stops at the
\* first Err met in that order
validate_backfill_table_names(requested, valid_table_names) ==
  LET invalid == {t \in requested : to_lowercase(t) \notin valid_table_names}
  IN IF invalid = {} THEN {Ok(SetToBag(requested))}
     ELSE {Err([msg |-> "Invalid table name", table_name |-> t,
                expected |-> valid_table_names]) : t \in invalid}

\* get_processor_status_table_names: the results the call may return
get_processor_status_table_names(config) ==
  IF config.type \notin ParquetProcessors
  THEN {Err([msg |-> "Invalid parquet processor config", table_name |-> "",
             expected |-> {}])}
  ELSE LET processor_name == name(config.type) IN
    IF processor_name \notin DOMAIN VALID_TABLE_NAMES
    THEN {Err([msg |-> "Processor type not recognized", table_name |-> "",
               expected |-> {}])}
    ELSE LET valid_table_names == VALID_TABLE_NAMES[processor_name] IN
      IF config.backfill_table = {}
      THEN {Ok(SetToBag({format_table_name(processor_name, t)
                          : t \in valid_table_names}))}
      ELSE validate_backfill_table_names(config.backfill_table, valid_table_names)

GetProcessorStatusTableNames ==
  /\ pc = "idle"
  /\ op' = "get_processor_status_table_names"
  /\ \E config \in ProcessorConfigs :
       /\ args' = [config |-> config]
       /\ ret' \in get_processor_status_table_names(config)
  /\ pc' = "done"
  /\ UNCHANGED <<ctx_burn, object_metadatas, ctx_v1, lookup_locals, cache_reads>>

\* the caller takes the result; the next call starts from fresh locals
Return ==
  /\ pc = "done"
  /\ pc' = "idle"
  /\ op' = "none"
  /\ args' = NoArgs
  /\ tokens_burned' = EmptyMap
  /\ prior_nft_ownership' = EmptyMap
  /\ object_metadatas' = EmptyMap
  /\ db_context' = None
  /\ table_handle_to_owner' = EmptyMap
  /\ token_v1_aggregated_events' = EmptyMap
  /\ store' = NoStore
  /\ tried' = 0
  /\ attempts' = 0
  /\ sleeps' = 0
  /\ cache_reads' = 0
  /\ ret' = NoRet

Next ==
  \/ GetBurnedNftV2FromDeleteResource
  \/ GetBurnedNftV2FromWriteResource
  \/ GetNftV2FromTokenData
  \/ GetV1FromWriteTableItem
  \/ GetV1FromDeleteTableItem
  \/ ParquetTokenOwnershipV2From
  \/ ParquetCurrentTokenOwnershipV2From
  \/ PostgresCurrentTokenOwnershipV2From
  \/ GetProcessorStatusTableNames
  \/ LookupAttempt
  \/ LookupSleep
  \/ LookupExhausted
  \/ Return

Spec == Init /\ [][Next]_vars


\* the burn resolver on deleted resources, on its own
LookupNext ==
  \/ GetBurnedNftV2FromDeleteResource
  \/ LookupAttempt
  \/ LookupSleep
  \/ LookupExhausted
  \/ Return

\* the scheduler resumes a suspended lookup: the awaited query and the awaited
\* sleep complete, and the loop exit is taken
FairSpec ==
  /\ Init /\ [][LookupNext]_vars
  /\ WF_vars(LookupAttempt)
  /\ WF_vars(LookupSleep)
  /\ WF_vars(LookupExhausted)

\* ------------------------------------------------------------- properties
BurnOps == {"get_burned_nft_v2_from_write_resource",
            "get_burned_nft_v2_from_delete_resource"}

\* the call in flight runs get_burned_nft_v2_helper on a burned asset
HelperOnBurned ==
  /\ op \in BurnOps
  /\ HelperAddress \in DOMAIN tokens_burned
  /\ op = "get_burned_nft_v2_from_write_resource"
       => args.write_resource.type_str # ObjectCoreType

EmbeddedOwner == tokens_burned[HelperAddress].previous_owner
InCache == HelperAddress \in DOMAIN prior_nft_ownership

\* both earlier tiers yield nothing and a store context is supplied
FallsToStore ==
  /\ HelperOnBurned
  /\ EmbeddedOwner = None
  /\ ~InCache
  /\ db_context # None

ConfiguredRetries == unwrap(db_context).query_retries

\* the owners the store holds for the asset with a positive amount
StoreAnswers ==
  {r.owner_address :
     r \in {x \in store.rows : x.token_data_id = HelperAddress /\ x.amount > 0}}

\* every attempt of this lookup fails
StoreAlwaysFails == store.fails >= ConfiguredRetries \/ StoreAnswers = {}

ReturnedPair == unwrap(ret.val)
ReturnedSome == ret.tag = "Ok" /\ ret.val # None

\* C1: with N >= 1 configured retries and a store that fails k < N times and
\* then succeeds, the lookup issues exactly k + 1 attempts and the burn
\* resolver emits the store's owner, not the sentinel.
C1_RetryUntilSuccess ==
  (FallsToStore /\ ConfiguredRetries >= 1 /\ store.fails < ConfiguredRetries
     /\ StoreAnswers # {})
  => /\ attempts <= store.fails + 1
     /\ pc = "done" =>
          /\ attempts = store.fails + 1
          /\ ReturnedSome
          /\ ReturnedPair[2].owner_address \in StoreAnswers
          /\ ReturnedPair[1].owner_address = Some(ReturnedPair[2].owner_address)
          /\ ReturnedPair[2].owner_address # DEFAULT_OWNER_ADDRESS

\* N = 3, k = 2: three attempts and the store's owner
C1_Witness ==
  /\ pc = "done"
  /\ FallsToStore
  /\ ConfiguredRetries = 3
  /\ store.fails = 2
  /\ attempts = 3
  /\ ReturnedSome
  /\ ReturnedPair[2].owner_address \in StoreAnswers

C2_Safety ==
  FallsToStore =>
    /\ attempts <= ConfiguredRetries
    /\ ret.tag # "Err"
    /\ (pc = "done" /\ StoreAlwaysFails) =>
         /\ attempts = ConfiguredRetries
         /\ ReturnedSome
         /\ ReturnedPair[1].owner_address = Some(DEFAULT_OWNER_ADDRESS)
         /\ ReturnedPair[2].owner_address = DEFAULT_OWNER_ADDRESS

\* C2: when every attempt fails the lookup stops after exactly the configured
\* number of attempts, it always terminates, and the burn resolver returns
\* Ok(Some(..)) carrying the sentinel owner in both records, never an Err.
C2_ExhaustionDegrades ==
  /\ []C2_Safety
  /\ (pc \in {"lookup", "sleep"}) ~> (pc = "done")

C2_Witness ==
  /\ pc = "done"
  /\ FallsToStore
  /\ StoreAlwaysFails
  /\ ConfiguredRetries = 3
  /\ attempts = 3
  /\ sleeps = 2
  /\ ReturnedSome
  /\ ReturnedPair[2].owner_address = DEFAULT_OWNER_ADDRESS

\* the store has been consulted by the call in flight
StoreConsulted == attempts > 0 \/ pc \in {"lookup", "sleep"} \/ store # NoStore

\* C3: the previous owner is resolved in tier order with short circuit: an
\* embedded previous owner is used without reading the cache or the store; else
\* a cache entry is used without any store lookup; the store is consulted
\* only when both earlier tiers yield nothing.
C3_TierOrder ==
  HelperOnBurned =>
    /\ EmbeddedOwner # None =>
         /\ cache_reads = 0
         /\ ~StoreConsulted
         /\ pc = "done"
         /\ ReturnedSome
         /\ ReturnedPair[2].owner_address = unwrap(EmbeddedOwner)
    /\ (EmbeddedOwner = None /\ InCache) =>
         /\ ~StoreConsulted
         /\ pc = "done"
         /\ ReturnedSome
         /\ ReturnedPair[2].owner_address =
              prior_nft_ownership[HelperAddress].owner_address
    /\ StoreConsulted => (EmbeddedOwner = None /\ ~InCache)

\* an embedded owner wins over a cache entry that names another owner
C3_Witness ==
  /\ pc = "done"
  /\ HelperOnBurned
  /\ EmbeddedOwner # None
  /\ InCache
  /\ prior_nft_ownership[HelperAddress].owner_address # unwrap(EmbeddedOwner)
  /\ db_context # None
  /\ ReturnedPair[2].owner_address = unwrap(EmbeddedOwner)


\* ------------------------------------------------- modern derive properties
DeriveOk ==
  /\ pc = "done"
  /\ op = "get_nft_v2_from_token_data"
  /\ ret.tag = "Ok"

DerivedTokenData == args.token_data
DerivedObject == object_metadatas[DerivedTokenData.token_data_id]
DerivedOwner == DerivedObject.object.object_core.owner
DerivedEvents == DerivedObject.transfer_events
DerivedOwnerships == ret.val[1]
DerivedCurrent == ret.val[2]

\* positions of the transfer events that are not self transfers
NonSelfPositions ==
  {k \in 1..Len(DerivedEvents) : DerivedEvents[k][2].from # DerivedEvents[k][2].to}
\* how many of them lie at or before position k
NonSelfRank(k) == Cardinality({j \in NonSelfPositions : j <= k})

\* C4: within one transaction the change indexes of event-derived records
\* (the negated event indexes) and of state-change-derived records (the token
\* data's own change index) are disjoint.
C4_IndexesDisjoint ==
  DeriveOk =>
    \A k \in 2..Len(DerivedOwnerships) :
      DerivedOwnerships[k].write_set_change_index
        # DerivedOwnerships[1].write_set_change_index

\* the context with the self transfers taken out of an event list
RECURSIVE WithoutSelfTransfers(_)
WithoutSelfTransfers(events) ==
  IF events = <<>> THEN <<>>
  ELSE IF events[1][2].from = events[1][2].to
       THEN WithoutSelfTransfers(Tail(events))
       ELSE <<events[1]>> \o WithoutSelfTransfers(Tail(events))

\* C5: a transfer event whose to-address equals its from-address produces no
\* OwnershipEvent and no candidate: the outputs are those of the same call
\* without the self transfers in the event list.
C5_SelfTransferSuppressed ==
  DeriveOk =>
    /\ ret = get_nft_v2_from_token_data(
               DerivedTokenData,
               [object_metadatas EXCEPT ![DerivedTokenData.token_data_id] =
                  [@ EXCEPT !.transfer_events = WithoutSelfTransfers(@)]])
    /\ Len(DerivedOwnerships) = 1 + Cardinality(NonSelfPositions)
    /\ \A k \in 1..Len(DerivedEvents) :
         DerivedEvents[k][2].from = DerivedEvents[k][2].to =>
           \A j \in 2..Len(DerivedOwnerships) :
             DerivedOwnerships[j].write_set_change_index # -DerivedEvents[k][1]

\* a self transfer next to a real one: only the real one leaves a record
C5_Witness ==
  /\ DeriveOk
  /\ Len(DerivedEvents) = 2
  /\ Cardinality(NonSelfPositions) = 1
  /\ Len(DerivedOwnerships) = 2
  /\ Cardinality(DOMAIN DerivedCurrent) = 2

\* the OwnershipEvents that say the current owner holds the asset
CurrentOwnerEvents ==
  {k \in 1..Len(DerivedOwnerships) : DerivedOwnerships[k].amount = 1}

\* C6: for a token data with an aggregated object context exactly one
\* OwnershipEvent is emitted for the current owner, with property version 0,
\* amount 1, storage id = asset id, standard V2, soulbound = marker present or
\* not allow_ungated_transfer, non_transferrable_by_owner = not
\* allow_ungated_transfer.
C6_CurrentOwnerRecord ==
  (pc = "done" /\ op = "get_nft_v2_from_token_data"
     /\ DerivedTokenData.token_data_id \in DOMAIN object_metadatas)
  => /\ ret.tag = "Ok"
     /\ Cardinality(CurrentOwnerEvents) = 1
     /\ LET e == DerivedOwnerships[CHOOSE k \in CurrentOwnerEvents : TRUE]
            allow == DerivedObject.object.object_core.allow_ungated_transfer
            marker == DerivedObject.untransferable # None
        IN /\ e.owner_address = Some(DerivedOwner)
           /\ e.token_data_id = DerivedTokenData.token_data_id
           /\ e.transaction_version = DerivedTokenData.transaction_version
           /\ e.write_set_change_index = DerivedTokenData.write_set_change_index
           /\ e.property_version_v1 = 0
           /\ e.amount = 1
           /\ e.storage_id = DerivedTokenData.token_data_id
           /\ e.token_standard = "v2"
           /\ e.is_soulbound_v2 = Some(marker \/ ~allow)
           /\ e.non_transferrable_by_owner = Some(~allow)

\* minted with allow_ungated_transfer = false and the marker present
C6_Witness ==
  /\ DeriveOk
  /\ DerivedObject.untransferable # None
  /\ ~DerivedObject.object.object_core.allow_ungated_transfer
  /\ DerivedEvents = <<>>
  /\ DerivedOwnerships[1].is_soulbound_v2 = Some(TRUE)
  /\ DerivedOwnerships[1].non_transferrable_by_owner = Some(TRUE)
  /\ DerivedOwnerships[1].owner_address = Some(DerivedOwner)

\* C7: whatever the transfer events, the candidate map holds under the
\* current owner's identity key a candidate with amount 1.
C7_CurrentOwnerCandidate ==
  DeriveOk =>
    LET key == <<DerivedTokenData.token_data_id, 0, DerivedOwner,
                 DerivedTokenData.token_data_id>>
    IN /\ key \in DOMAIN DerivedCurrent
       /\ DerivedCurrent[key].amount = 1

\* C8: every transfer event with from # to adds one OwnershipEvent for the
\* previous owner (owner = from, amount 0, change index = -event index, the
\* token data's transaction version), so 1 + (number of such events) records
\* are returned.
C8_PreviousOwnerRecords ==
  DeriveOk =>
    /\ Len(DerivedOwnerships) = 1 + Cardinality(NonSelfPositions)
    /\ \A k \in NonSelfPositions :
         LET e == DerivedOwnerships[1 + NonSelfRank(k)]
         IN /\ e.owner_address = Some(DerivedEvents[k][2].from)
            /\ e.amount = 0
            /\ e.write_set_change_index = -DerivedEvents[k][1]
            /\ e.transaction_version = DerivedTokenData.transaction_version
            /\ e.token_data_id = DerivedTokenData.token_data_id

\* two real transfers with non-zero event indexes
C8_Witness ==
  /\ DeriveOk
  /\ Len(DerivedEvents) = 2
  /\ Cardinality(NonSelfPositions) = 2
  /\ DerivedEvents[1][1] > 0
  /\ Len(DerivedOwnerships) = 3
  /\ DerivedOwnerships[3].write_set_change_index < 0

\* ------------------------------------------------------- legacy properties
LegacyWrite == pc = "done" /\ op = "get_v1_from_write_table_item"
LegacyDelete == pc = "done" /\ op = "get_v1_from_delete_table_item"

\* the table item decodes to the variant its path expects
WriteDecodes ==
  /\ args.table_item.data.value_type = "0x3::token::Token"
  /\ args.table_item.data.wellformed
DeleteDecodes ==
  /\ args.table_item.data.key_type = "0x3::token::TokenId"
  /\ args.table_item.data.wellformed

LegacyHandle == standardize_address(args.table_item.handle)
LegacyTokenId ==
  LET t == IF op = "get_v1_from_write_table_item"
           THEN args.table_item.data.value.id.token_data_id
           ELSE args.table_item.data.key.token_data_id
  IN <<t.creator, t.collection, t.name>>

\* tier (a): an index entry of the canonical legacy store type
IndexResolves ==
  /\ LegacyHandle \in DOMAIN table_handle_to_owner
  /\ table_handle_to_owner[LegacyHandle].table_type = "0x3::token::TokenStore"

RecordedDeposits ==
  IF LegacyTokenId \in DOMAIN token_v1_aggregated_events
  THEN token_v1_aggregated_events[LegacyTokenId].deposit_module_events
  ELSE <<>>
RecordedWithdraws ==
  IF LegacyTokenId \in DOMAIN token_v1_aggregated_events
  THEN token_v1_aggregated_events[LegacyTokenId].withdraw_module_events
  ELSE <<>>

\* tier (b): the address of the most recent deposit / the earliest withdraw
DepositOwner ==
  IF RecordedDeposits = <<>> THEN None
  ELSE RecordedDeposits[Len(RecordedDeposits)].to_address
WithdrawOwner ==
  IF RecordedWithdraws = <<>> THEN None
  ELSE RecordedWithdraws[1].from_address

ExpectedLegacyOwner ==
  IF IndexResolves THEN Some(table_handle_to_owner[LegacyHandle].owner_address)
  ELSE IF op = "get_v1_from_write_table_item" THEN DepositOwner
  ELSE WithdrawOwner

\* C9: legacy owner resolution is two-tier: an index entry of the canonical
\* store type gives the owner regardless of events; otherwise the most recent
\* deposit event (write) or the earliest withdraw event (delete) gives it.
C9_LegacyTwoTier ==
  ((LegacyWrite /\ WriteDecodes) \/ (LegacyDelete /\ DeleteDecodes)) =>
    /\ ret.tag = "Ok"
    /\ ExpectedLegacyOwner # None =>
         /\ ret.val # None
         /\ ReturnedPair[1].owner_address = ExpectedLegacyOwner
         /\ ReturnedPair[2] # None
         /\ unwrap(ReturnedPair[2]).owner_address = unwrap(ExpectedLegacyOwner)
    /\ ret.val # None => ExpectedLegacyOwner # None

\* a write to a handle without index entry, two deposits to different
\* addresses: the most recent one is the owner
C9_Witness ==
  /\ LegacyWrite
  /\ WriteDecodes
  /\ LegacyHandle \notin DOMAIN table_handle_to_owner
  /\ Len(RecordedDeposits) = 2
  /\ RecordedDeposits[1].to_address # None
  /\ RecordedDeposits[2].to_address # None
  /\ RecordedDeposits[1].to_address # RecordedDeposits[2].to_address
  /\ ReturnedSome
  /\ ReturnedPair[1].owner_address = RecordedDeposits[2].to_address

\* C10: when neither legacy tier resolves an owner the call returns Ok(None):
\* no OwnershipEvent, no candidate, no error.
C10_UnresolvedDropped ==
  /\ (LegacyWrite /\ WriteDecodes /\ ~IndexResolves /\ DepositOwner = None)
       => ret = [tag |-> "Ok", val |-> <<>>]
  /\ (LegacyDelete /\ DeleteDecodes /\ ~IndexResolves /\ WithdrawOwner = None)
       => ret = [tag |-> "Ok", val |-> <<>>]

\* a delete whose handle is indexed under another table type and whose first
\* withdraw event carries no address
C10_Witness ==
  /\ LegacyDelete
  /\ DeleteDecodes
  /\ LegacyHandle \in DOMAIN table_handle_to_owner
  /\ ~IndexResolves
  /\ RecordedWithdraws # <<>>
  /\ WithdrawOwner = None
  /\ ret = [tag |-> "Ok", val |-> <<>>]

\* ------------------------------------------------------ candidate properties
\* the CurrentOwnership candidates the finished call returned
ReturnedCandidates ==
  IF pc # "done" \/ ret.tag # "Ok" THEN {}
  ELSE IF op = "get_nft_v2_from_token_data"
       THEN {ret.val[2][k] : k \in DOMAIN ret.val[2]}
  ELSE IF op \in BurnOps
       THEN IF ret.val = None THEN {} ELSE {ReturnedPair[2]}
  ELSE IF op \in {"get_v1_from_write_table_item", "get_v1_from_delete_table_item"}
       THEN IF ret.val = None \/ ReturnedPair[2] = None THEN {}
            ELSE {unwrap(ReturnedPair[2])}
  ELSE {}

\* C11: no CurrentOwnership candidate of any derivation path (modern derive,
\* modern burn, legacy write, legacy delete) has a negative amount, also when
\* the decoded legacy token amount is negative.
C11_AmountNonNegative ==
  \A c \in ReturnedCandidates : c.amount >= 0

\* a legacy write whose decoded amount is negative yields a candidate of amount 0
C11_Witness ==
  /\ LegacyWrite
  /\ WriteDecodes
  /\ args.table_item.data.value.amount < 0
  /\ ReturnedSome
  /\ \E c \in ReturnedCandidates : c.amount = 0

\* the candidates of a derive call in the order the code produces them: the
\* current owner's, then one per transfer event that is not a self transfer
DerivedCandidates ==
  LET prev(k) == previous_owner_records(DerivedTokenData, DerivedObject,
                                        DerivedEvents[k][1], DerivedEvents[k][2])[2]
      kept == SelectSeq([k \in 1..Len(DerivedEvents) |-> k],
                        LAMBDA k : k \in NonSelfPositions)
  IN <<current_owner_records(DerivedTokenData, DerivedObject)[2]>>
     \o [j \in 1..Len(kept) |-> prev(kept[j])]

CandidateKey(c) ==
  <<c.token_data_id, c.property_version_v1, c.owner_address, c.storage_id>>

\* the identity-keyed map after inserting the candidates in the given order
RECURSIVE InsertAll(_, _)
InsertAll(candidates, map) ==
  IF candidates = <<>> THEN map
  ELSE InsertAll(Tail(candidates),
                 [k \in DOMAIN map \cup {CandidateKey(Head(candidates))} |->
                    IF k = CandidateKey(Head(candidates))
                    THEN Head(candidates) ELSE map[k]])

\* C12: the reduction of the candidates to one per identity does not depend
\* on the order in which they are inserted into the identity-keyed map.
C12_OrderIndependent ==
  DeriveOk =>
    \A p \in Permutations(1..Len(DerivedCandidates)) :
      InsertAll([j \in 1..Len(DerivedCandidates) |-> DerivedCandidates[p[j]]],
                [k \in {} |-> <<>>])
        = DerivedCurrent

\* C13: two candidates of the same identity and the same version with
\* different field values are reported as an error, never silently reduced to
\* one of them.
C13_ConflictReported ==
  (pc = "done" /\ op = "get_nft_v2_from_token_data"
     /\ DerivedTokenData.token_data_id \in DOMAIN object_metadatas
     /\ \E i, j \in 1..Len(DerivedCandidates) :
          /\ CandidateKey(DerivedCandidates[i]) = CandidateKey(DerivedCandidates[j])
          /\ DerivedCandidates[i].last_transaction_version
               = DerivedCandidates[j].last_transaction_version
          /\ DerivedCandidates[i] # DerivedCandidates[j])
  => ret.tag = "Err"

\* ------------------------------------------------------ burn path properties
\* a burn call on a write resource that still carries the object core emitted
\* its pair
BurnedWithObject ==
  /\ pc = "done"
  /\ op = "get_burned_nft_v2_from_write_resource"
  /\ HelperAddress \in DOMAIN tokens_burned
  /\ args.write_resource.type_str = ObjectCoreType
  /\ args.write_resource.wellformed
  /\ ReturnedSome

\* C17: on the burn path with the object core at hand, is_soulbound_v2 of both
\* records is true exactly when the asset's untransferable marker is present
\* in the aggregated context or the object core forbids ungated transfer.
C17_BurnSoulboundFlag ==
  BurnedWithObject =>
    LET marker == /\ HelperAddress \in DOMAIN object_metadatas
                  /\ is_some(object_metadatas[HelperAddress].untransferable)
        expected == marker \/ ~args.write_resource.object_core.allow_ungated_transfer
    IN /\ ReturnedPair[1].is_soulbound_v2 = Some(expected)
       /\ ReturnedPair[2].is_soulbound_v2 = Some(expected)

\* C18: every pair the burn helper emits has amount 0, property version 0,
\* storage_id equal to the asset id, the given version, index and timestamp,
\* standard V2, the three flags absent, and the same owner in both records.
C18_HelperPairShape ==
  (pc = "done" /\ HelperOnBurned /\ ReturnedSome) =>
    LET ownership == ReturnedPair[1]
        current == ReturnedPair[2]
    IN /\ ownership.amount = 0 /\ current.amount = 0
       /\ ownership.property_version_v1 = 0 /\ current.property_version_v1 = 0
       /\ ownership.token_data_id = HelperAddress
       /\ current.token_data_id = HelperAddress
       /\ ownership.storage_id = HelperAddress
       /\ current.storage_id = HelperAddress
       /\ ownership.token_standard = TokenStandardV2
       /\ current.token_standard = TokenStandardV2
       /\ ownership.transaction_version = args.txn_version
       /\ current.last_transaction_version = args.txn_version
       /\ ownership.write_set_change_index = args.write_set_change_index
       /\ ownership.transaction_timestamp = args.txn_timestamp
       /\ current.last_transaction_timestamp = args.txn_timestamp
       /\ ownership.is_soulbound_v2 = None /\ current.is_soulbound_v2 = None
       /\ ownership.is_fungible_v2 = None /\ current.is_fungible_v2 = None
       /\ ownership.non_transferrable_by_owner = None
       /\ current.non_transferrable_by_owner = None
       /\ ownership.table_type_v1 = None /\ current.table_type_v1 = None
       /\ ownership.token_properties_mutated_v1 = None
       /\ current.token_properties_mutated_v1 = None
       /\ ownership.owner_address = Some(current.owner_address)

C18_Witness ==
  /\ pc = "done"
  /\ FallsToStore
  /\ op = "get_burned_nft_v2_from_write_resource"
  /\ args.write_set_change_index = 1
  /\ ReturnedSome
  /\ ReturnedPair[2].owner_address \in StoreAddrs
  /\ ReturnedPair[1].owner_address = Some(ReturnedPair[2].owner_address)

\* ------------------------------------------------------ adapter properties
AdapterOps == {"ParquetTokenOwnershipV2::from",
               "ParquetCurrentTokenOwnershipV2::from",
               "PostgresCurrentTokenOwnershipV2::from"}

ColumnarOps == {"ParquetTokenOwnershipV2::from",
                "ParquetCurrentTokenOwnershipV2::from"}

\* C15: every export adapter returns a record for every canonical record,
\* whatever its property_version_v1 (negative or beyond the unsigned range
\* included); none aborts.
C15_AdaptersTotal ==
  (pc = "done" /\ op \in AdapterOps) => ret.tag = "Ok"

\* C16: both columnar adapters encode a present property value as its
\* canonical JSON text, and as DEFAULT_NONE when canonicalization fails.
C16_CanonicalProperties ==
  (pc = "done" /\ op \in ColumnarOps /\ ret.tag = "Ok"
     /\ is_some(args.raw_item.token_properties_mutated_v1))
  => LET value == unwrap(args.raw_item.token_properties_mutated_v1)
         canonical == canonical_json_to_string(value)
     IN ret.val.token_properties_mutated_v1
          = IF canonical.tag = "Ok" THEN Some(canonical.val)
            ELSE Some(<<DEFAULT_NONE>>)

\* ------------------------------------------------ configuration properties
StatusNamesDone == pc = "done" /\ op = "get_processor_status_table_names"

C20_EmptyBackfillPrefixed ==
  StatusNamesDone =>
    /\ (args.config.type \in ParquetProcessors /\ args.config.backfill_table = {})
       => /\ ret.tag = "Ok"
          /\ BagToSet(ret.val) =
               {name(args.config.type) \o "." \o t : t \in table_names(args.config.type)}
          /\ \A n \in BagToSet(ret.val) : CopiesIn(n, ret.val) = 1
    /\ args.config.type \notin ParquetProcessors => ret.tag = "Err"

C20_Witness ==
  /\ StatusNamesDone
  /\ args.config.type = "ParquetDefaultProcessor"
  /\ args.config.backfill_table = {}
  /\ ret.tag = "Ok"
  /\ "parquet_default_processor.transactions" \in BagToSet(ret.val)
  /\ Cardinality(BagToSet(ret.val)) = 8

\* --------------------------------------------------- scheduling properties
\* a burn call on another asset of the unit can begin: both entry points take
\* the unit's db_context by exclusive reference (&mut, lines 261 and 344)
OtherBurnCallCanBegin ==
  ENABLED (GetBurnedNftV2FromDeleteResource \/ GetBurnedNftV2FromWriteResource)

C22_PreviousOwnerFlag ==
  DeriveOk =>
    LET allow == DerivedObject.object.object_core.allow_ungated_transfer
        marker == DerivedObject.untransferable # None
        soulbound == marker \/ ~allow
    IN \A k \in NonSelfPositions :
         LET e == DerivedOwnerships[1 + NonSelfRank(k)]
             c == DerivedCurrent[<<DerivedTokenData.token_data_id, 0,
                                   DerivedEvents[k][2].from,
                                   DerivedTokenData.token_data_id>>]
         IN /\ e.non_transferrable_by_owner = Some(soulbound)
            /\ c.non_transferrable_by_owner = Some(soulbound)
            /\ (e.non_transferrable_by_owner
                  # DerivedOwnerships[1].non_transferrable_by_owner)
               <=> (marker /\ allow)

C22_Witness ==
  /\ DeriveOk
  /\ DerivedObject.untransferable # None
  /\ DerivedObject.object.object_core.allow_ungated_transfer
  /\ Cardinality(NonSelfPositions) = 1
  /\ Len(DerivedEvents) = 1
  /\ DerivedOwnerships[1].non_transferrable_by_owner = Some(FALSE)
  /\ DerivedOwnerships[2].non_transferrable_by_owner = Some(TRUE)

\* ------------------------------------------------ legacy decode properties
RecognizedTypes == {"0x3::token::Token", "0x3::token::TokenId",
                    "0x3::token::TokenData"}

\* the type tag the legacy call in flight decodes by
LegacyTypeTag ==
  IF op = "get_v1_from_write_table_item"
  THEN args.table_item.data.value_type
  ELSE args.table_item.data.key_type

\* the variant the legacy call in flight expects
LegacyExpectedType ==
  IF op = "get_v1_from_write_table_item"
  THEN "0x3::token::Token" ELSE "0x3::token::TokenId"

\* C23: in the legacy paths a malformed payload of a recognized type is
\* returned as Err with no record, while an unrecognized type, or a well-formed
\* payload of another variant than the expected one, is returned as Ok(None).
C23_DecodeFailureSurfaced ==
  (LegacyWrite \/ LegacyDelete) =>
    /\ (LegacyTypeTag \in RecognizedTypes /\ ~args.table_item.data.wellformed)
       => ret.tag = "Err"
    /\ (LegacyTypeTag \notin RecognizedTypes
          \/ (args.table_item.data.wellformed
                /\ LegacyTypeTag # LegacyExpectedType))
       => (ret.tag = "Ok" /\ ret.val = None)

C23_Witness ==
  /\ LegacyDelete
  /\ args.table_item.data.key_type = "0x3::token::TokenId"
  /\ ~args.table_item.data.wellformed
  /\ ret.tag = "Err"

\* ------------------------------------------------- burn marker properties
\* C24: when the standardized address of the written or deleted resource is
\* not a key of tokens_burned, both burn entry points return Ok(None) without
\* reading the cache and without any external lookup.
C24_OnlyBurnedAssets ==
  (pc # "idle" /\ op \in BurnOps /\ HelperAddress \notin DOMAIN tokens_burned)
  => /\ pc = "done"
     /\ ret.tag = "Ok" /\ ret.val = None
     /\ cache_reads = 0
     /\ attempts = 0 /\ sleeps = 0
     /\ store = NoStore

C24_Witness ==
  /\ pc = "done"
  /\ op = "get_burned_nft_v2_from_delete_resource"
  /\ tokens_burned # EmptyMap
  /\ HelperAddress \notin DOMAIN tokens_burned
  /\ HelperAddress \in DOMAIN prior_nft_ownership
  /\ db_context # None
  /\ ret.tag = "Ok" /\ ret.val = None

\* ------------------------------------------------ degenerate lookup cases
\* C25: with query_retries = 0 the lookup makes no attempt and no sleep and
\* fails even when the store holds the asset, so the burn resolver emits the
\* sentinel owner.
C25_ZeroRetries ==
  (pc = "done" /\ FallsToStore /\ ConfiguredRetries = 0)
  => /\ attempts = 0
     /\ sleeps = 0
     /\ ReturnedSome
     /\ ReturnedPair[1].owner_address = Some(DEFAULT_OWNER_ADDRESS)
     /\ ReturnedPair[2].owner_address = DEFAULT_OWNER_ADDRESS

C25_Witness ==
  /\ pc = "done"
  /\ FallsToStore
  /\ ConfiguredRetries = 0
  /\ store.fails = 0
  /\ StoreAnswers # {}
  /\ attempts = 0
  /\ ReturnedPair[2].owner_address = DEFAULT_OWNER_ADDRESS

\* C26: with no store context (db_context = None) and nothing from the first
\* two tiers, the helper issues no external lookup and emits the sentinel
\* owner DEFAULT_OWNER_ADDRESS with amount 0.
C26_NoContextNoLookup ==
  (pc # "idle" /\ HelperOnBurned /\ EmbeddedOwner = None /\ ~InCache
     /\ db_context = None)
  => /\ pc = "done"
     /\ store = NoStore
     /\ attempts = 0 /\ sleeps = 0
     /\ ReturnedSome
     /\ ReturnedPair[1].owner_address = Some(DEFAULT_OWNER_ADDRESS)
     /\ ReturnedPair[2].owner_address = DEFAULT_OWNER_ADDRESS
     /\ ReturnedPair[1].amount = 0
     /\ ReturnedPair[2].amount = 0

C26_Witness ==
  /\ pc = "done"
  /\ HelperOnBurned
  /\ op = "get_burned_nft_v2_from_write_resource"
  /\ EmbeddedOwner = None
  /\ ~InCache
  /\ prior_nft_ownership # EmptyMap
  /\ db_context = None
  /\ cache_reads = 1
  /\ ReturnedPair[2].owner_address = DEFAULT_OWNER_ADDRESS

\* ------------------------------------------------ legacy event tier property
\* C27: the legacy event tier looks at one event only.  A write whose last
\* deposit event has no to-address is dropped even when an earlier deposit
\* has one; a delete whose first withdraw event has no from-address is
\* dropped even when a later withdraw has one.
C27_SingleEventInspected ==
  /\ (LegacyWrite /\ WriteDecodes /\ ~IndexResolves
        /\ Len(RecordedDeposits) >= 2
        /\ RecordedDeposits[Len(RecordedDeposits)].to_address = None
        /\ \E k \in 1..(Len(RecordedDeposits) - 1) :
             RecordedDeposits[k].to_address # None)
     => (ret.tag = "Ok" /\ ret.val = None)
  /\ (LegacyDelete /\ DeleteDecodes /\ ~IndexResolves
        /\ Len(RecordedWithdraws) >= 2
        /\ RecordedWithdraws[1].from_address = None
        /\ \E k \in 2..Len(RecordedWithdraws) :
             RecordedWithdraws[k].from_address # None)
     => (ret.tag = "Ok" /\ ret.val = None)

C27_Witness ==
  /\ LegacyWrite
  /\ WriteDecodes
  /\ LegacyHandle \notin DOMAIN table_handle_to_owner
  /\ Len(RecordedDeposits) = 2
  /\ RecordedDeposits[1].to_address = Some("A")
  /\ RecordedDeposits[2].to_address = None
  /\ ret.tag = "Ok" /\ ret.val = None

\* ------------------------------------------------ object core burn property
\* C28: when the written resource of a burned asset still decodes to an
\* object core, the owner of both records is the object core's owner; the
\* previous owner embedded in the burn marker is ignored, the cache is not
\* read and no external lookup is issued.
C28_ObjectCoreBypassesTiers ==
  (pc # "idle" /\ op = "get_burned_nft_v2_from_write_resource"
     /\ HelperAddress \in DOMAIN tokens_burned
     /\ args.write_resource.type_str = ObjectCoreType
     /\ args.write_resource.wellformed)
  => /\ pc = "done"
     /\ ReturnedSome
     /\ ReturnedPair[1].owner_address = Some(args.write_resource.object_core.owner)
     /\ ReturnedPair[2].owner_address = args.write_resource.object_core.owner
     /\ cache_reads = 0
     /\ attempts = 0 /\ sleeps = 0
     /\ store = NoStore

C28_Witness ==
  /\ BurnedWithObject
  /\ EmbeddedOwner = Some("A")
  /\ args.write_resource.object_core.owner = "B"
  /\ InCache
  /\ db_context # None
  /\ ReturnedPair[2].owner_address = "B"
  /\ cache_reads = 0

=============================================================================
